---------------------------- MODULE Spec2Model ----------------------------
(***************************************************************************)
(* MikroTik Security Monitor (src/main.py): the incremental log-ingestion  *)
(* and brute-force detection pipeline of main(), run after run against a   *)
(* persistent CSV ledger.                                                  *)
(*                                                                         *)
(* Python strings are sequences of one-character strings, so that the      *)
(* substring test, the regular expression, the timestamp parser and the    *)
(* f-string that builds the record id are computed character by character. *)
(***************************************************************************)
EXTENDS Integers, Sequences, FiniteSets, TLC

\* ------------------------------------------------------------------ bounds
\* Entries in one fetched batch.
MaxBatch == 2
\* Ledger rows plus fetched entries a run may start with.
MaxRecords == 3
\* Number of runs of main() in one behaviour.
MaxRuns == 2

\* --------------------------------------------------------- configuration
FAILURE_KEYWORDS ==
  << <<"l", "o", "g", "i", "n", " ", "f", "a", "i", "l", "u", "r", "e">>,
     <<"f", "a", "i", "l", "e", "d">>,
     <<"d", "e", "n", "i", "e", "d">>,
     <<"i", "n", "v", "a", "l", "i", "d">> >>
BRUTE_FORCE_THRESHOLD == 2
BRUTE_FORCE_WINDOW == 5

\* ------------------------------------------------------- Python / pandas values
\* Python's None and pandas' NaN: one-element sequences, never equal to a
\* sequence of characters.
NoneVal == <<"None">>
NaN == <<"NaN">>
\* pandas' NaT, among datetimes counted in seconds since midnight.
NaT == -1
\* pandas isna(): None, NaN and NaT are missing values.
IsNA(v) == v = NoneVal \/ v = NaN

UpperCase ==
  <<"A", "B", "C", "D", "E", "F", "G", "H", "I", "J", "K", "L", "M",
    "N", "O", "P", "Q", "R", "S", "T", "U", "V", "W", "X", "Y", "Z">>
LowerCase ==
  <<"a", "b", "c", "d", "e", "f", "g", "h", "i", "j", "k", "l", "m",
    "n", "o", "p", "q", "r", "s", "t", "u", "v", "w", "x", "y", "z">>
Digits == <<"0", "1", "2", "3", "4", "5", "6", "7", "8", "9">>

\* str.lower(), one character.
LowerChar(c) ==
  IF \E i \in 1..26 : UpperCase[i] = c
    THEN LowerCase[CHOOSE i \in 1..26 : UpperCase[i] = c]
    ELSE c
\* str.lower().
Lower(s) == [i \in 1..Len(s) |-> LowerChar(s[i])]

\* `keyword in message`: scan the start positions left to right.
RECURSIVE FindFrom(_, _, _)
FindFrom(sub, s, i) ==
  IF i + Len(sub) - 1 > Len(s) THEN FALSE
  ELSE IF SubSeq(s, i, i + Len(sub) - 1) = sub THEN TRUE
  ELSE FindFrom(sub, s, i + 1)
KeywordIn(keyword, message) == FindFrom(keyword, message, 1)

\* The message the keywords are searched in: entry.get("message", "").lower()
SearchedMessageNoLower(entry) == entry.message
SearchedMessage(entry) == Lower(entry.message)

\* any(keyword in message for keyword in FAILURE_KEYWORDS)
IsFailure(entry) ==
  \E k \in 1..Len(FAILURE_KEYWORDS) :
    KeywordIn(FAILURE_KEYWORDS[k], SearchedMessage(entry))

\* str() inside an f-string: None prints as the four characters None.
Str(v) == IF v = NoneVal THEN <<"N", "o", "n", "e">> ELSE v
\* f"{entry.get('time')}|{entry.get('message')}"
MakeId(entry) == Str(entry.time) \o <<"|">> \o Str(entry.message)
\* The dict appended to failed_logins.
FailureRecord(entry) ==
  [time |-> entry.time, message |-> entry.message,
   topics |-> entry.topics, id |-> MakeId(entry)]

\* for entry in log_entries: ... failed_logins.append({...})
RECURSIVE ClassifyLoop(_, _, _)
ClassifyLoop(entries, i, acc) ==
  IF i > Len(entries) THEN acc
  ELSE ClassifyLoop(entries, i + 1,
         IF IsFailure(entries[i])
           THEN Append(acc, FailureRecord(entries[i])) ELSE acc)
Classify(entries) == ClassifyLoop(entries, 1, <<>>)

\* ------------------------------------------------------------ extract_ip
IsDigit(c) == \E i \in 1..10 : Digits[i] = c
\* \w of the regular expression: letters, digits, underscore.
IsWordChar(c) ==
  \/ IsDigit(c)
  \/ c = "_"
  \/ \E i \in 1..26 : UpperCase[i] = c \/ LowerCase[i] = c
\* Length of the run of digits of s that starts at position i.
RECURSIVE DigitRun(_, _)
DigitRun(s, i) ==
  IF i > Len(s) \/ ~IsDigit(s[i]) THEN 0 ELSE 1 + DigitRun(s, i + 1)
\* (?:[0-9]{1,3}\.) from position i: the position after the period, or 0.
\* The group must be followed by a period, so it takes the whole digit run.
GroupDot(s, i) ==
  LET n == DigitRun(s, i)
  IN IF i > 0 /\ n >= 1 /\ n <= 3 /\ i + n <= Len(s) /\ s[i + n] = "."
       THEN i + n + 1 ELSE 0
\* [0-9]{1,3}\b from position i: the position of the last digit, or 0. The
\* word boundary after a digit needs a non-word character or the end.
LastGroup(s, i) ==
  LET n == DigitRun(s, i)
  IN IF i > 0 /\ n >= 1 /\ n <= 3
        /\ (i + n > Len(s) \/ ~IsWordChar(s[i + n]))
       THEN i + n - 1 ELSE 0
\* The whole pattern anchored at position i: the end of the match, or 0.
MatchAt(s, i) ==
  IF i > Len(s) \/ ~IsDigit(s[i]) \/ (i > 1 /\ IsWordChar(s[i - 1]))
    THEN 0
    ELSE LastGroup(s, GroupDot(s, GroupDot(s, GroupDot(s, i))))
\* re.search: the leftmost match; None when there is none.
extract_ip(message) ==
  IF \E i \in 1..Len(message) : MatchAt(message, i) > 0
    THEN LET i == CHOOSE j \in 1..Len(message) :
                    /\ MatchAt(message, j) > 0
                    /\ \A k \in 1..(j - 1) : MatchAt(message, k) = 0
         IN SubSeq(message, i, MatchAt(message, i))
    ELSE NoneVal

\* ----------------------------------------------------------- to_datetime
DigitVal(c) == (CHOOSE i \in 1..10 : Digits[i] = c) - 1
TwoDigits(s, i) == 10 * DigitVal(s[i]) + DigitVal(s[i + 1])
\* pd.to_datetime(..., errors='coerce') of one cell: a clock time HH:MM:SS
\* becomes that time of the current day; a missing value or a string that
\* is no valid time becomes NaT.
to_datetime(time) ==
  IF IsNA(time) \/ Len(time) # 8 THEN NaT
  ELSE IF ~(/\ \A i \in {1, 2, 4, 5, 7, 8} : IsDigit(time[i])
            /\ time[3] = ":" /\ time[6] = ":") THEN NaT
  ELSE IF TwoDigits(time, 1) > 23 \/ TwoDigits(time, 4) > 59
          \/ TwoDigits(time, 7) > 59 THEN NaT
  ELSE 3600 * TwoDigits(time, 1) + 60 * TwoDigits(time, 4) + TwoDigits(time, 7)

\* ------------------------------------------------------------ DataFrames
\* A DataFrame is the sequence of its rows; the frames of main() have the
\* columns time, message, topics, id.
Columns == {"time", "message", "topics", "id"}

\* The message column taken for the id column.
MessageColumn(frame) == [i \in 1..Len(frame) |-> frame[i].message]
\* existing_df.get('id', []): the id column, empty for the empty frame.
IdColumn(frame) == [i \in 1..Len(frame) |-> frame[i].id]
\* Series.isin, one value.
isin(v, column) == \E i \in 1..Len(column) : column[i] = v
\* df[mask]: the rows whose mask entry is True, in order.
RECURSIVE BooleanIndex(_, _, _)
BooleanIndex(frame, mask, i) ==
  IF i > Len(frame) THEN <<>>
  ELSE (IF mask[i] THEN <<frame[i]>> ELSE <<>>)
       \o BooleanIndex(frame, mask, i + 1)
\* The frame without the membership filter.
DiffKeepsAll(df, existing) == df
\* df[~df['id'].isin(existing_df.get('id', []))].copy()
Diff(df, existing) ==
  BooleanIndex(df,
    [i \in 1..Len(df) |-> ~isin(df[i].id, IdColumn(existing))], 1)

\* pd.concat([existing_df, new_entries])
Concat(existing, new) == existing \o new

\* to_csv, one row: a missing value is written as the empty field.
ToCsvRow(row) == [c \in Columns |-> IF IsNA(row[c]) THEN <<>> ELSE row[c]]
\* read_csv, one row: the empty field is read as NaN.
FromCsvRow(line) == [c \in Columns |-> IF line[c] = <<>> THEN NaN ELSE line[c]]
\* read_csv of the rows of the ledger file.
read_csv(lines) == [i \in 1..Len(lines) |-> FromCsvRow(lines[i])]
\* to_csv of a frame.
to_csv(frame) == [i \in 1..Len(frame) |-> ToCsvRow(frame[i])]

\* ----------------------------------------------------- brute-force detection
\* new_entries with the columns ip and datetime added.
WithIpAndDatetime(frame) ==
  [i \in 1..Len(frame) |->
     [time |-> frame[i].time, message |-> frame[i].message,
      topics |-> frame[i].topics, id |-> frame[i].id,
      ip |-> extract_ip(frame[i].message),
      datetime |-> to_datetime(frame[i].time)]]
\* A row dropna() keeps: no column of it holds a missing value.
RowComplete(row) ==
  /\ ~IsNA(row.time) /\ ~IsNA(row.message) /\ ~IsNA(row.topics)
  /\ ~IsNA(row.id) /\ ~IsNA(row.ip) /\ row.datetime # NaT
dropna(frame) == SelectSeq(frame, RowComplete)
\* The keys of ip_attempts in insertion order: each ip at its first row.
RECURSIVE IpKeys(_, _, _)
IpKeys(rows, i, acc) ==
  IF i > Len(rows) THEN acc
  ELSE IpKeys(rows, i + 1,
         IF \E k \in 1..Len(acc) : acc[k] = rows[i].ip
           THEN acc ELSE Append(acc, rows[i].ip))
\* ip_attempts[ip]: the datetimes of the rows of that ip.
RECURSIVE IpTimes(_, _, _)
IpTimes(rows, ip, i) ==
  IF i > Len(rows) THEN <<>>
  ELSE (IF rows[i].ip = ip THEN <<rows[i].datetime>> ELSE <<>>)
       \o IpTimes(rows, ip, i + 1)
MaxOf(times) ==
  CHOOSE m \in {times[i] : i \in 1..Len(times)} :
    \A i \in 1..Len(times) : times[i] <= m
MinOf(times) ==
  CHOOSE m \in {times[i] : i \in 1..Len(times)} :
    \A i \in 1..Len(times) : m <= times[i]
\* len(times) >= BRUTE_FORCE_THRESHOLD and
\* (max(times) - min(times)) <= timedelta(minutes=BRUTE_FORCE_WINDOW)
IsBruteForce(times) ==
  /\ Len(times) >= BRUTE_FORCE_THRESHOLD
  /\ MaxOf(times) - MinOf(times) <= 60 * BRUTE_FORCE_WINDOW
RECURSIVE FlaggedAmong(_, _, _)
FlaggedAmong(keys, rows, i) ==
  IF i > Len(keys) THEN <<>>
  ELSE (IF IsBruteForce(IpTimes(rows, keys[i], 1)) THEN <<keys[i]>> ELSE <<>>)
       \o FlaggedAmong(keys, rows, i + 1)
\* brute_force_ips of a frame.
BruteForceIps(frame) ==
  LET rows == dropna(WithIpAndDatetime(frame))
  IN FlaggedAmong(IpKeys(rows, 1, <<>>), rows, 1)
\* The detector reading the ledger's rows together with the new ones.
DetectionFrameWithHistory(existing, new) == existing \o new
\* The frame the detector reads: new_entries.
DetectionFrame(existing, new) == new

\* ------------------------------------------------------- the log source
T0 == <<"0", "0", ":", "0", "0", ":", "0", "0">>
T300 == <<"0", "0", ":", "0", "5", ":", "0", "0">>
T301 == <<"0", "0", ":", "0", "5", ":", "0", "1">>
TBad == <<"2", "5", ":", "0", "0", ":", "0", "0">>
MsgFailedA == <<"F", "a", "i", "l", "e", "d", " ", "1", ".", "2", ".", "3", ".", "4">>
MsgLoginA ==
  <<"l", "o", "g", "i", "n", " ", "f", "a", "i", "l", "u", "r", "e", " ",
    "1", ".", "2", ".", "3", ".", "4">>
MsgDeniedB == <<"d", "e", "n", "i", "e", "d", " ", "5", ".", "6", ".", "7", ".", "8">>
MsgInvalidated == <<"I", "N", "V", "A", "L", "I", "D", "a", "t", "e", "d">>
MsgLinkUp == <<"l", "i", "n", "k", " ", "u", "p", " ", "1", ".", "2", ".", "3", ".", "4">>
TopicsSystem == <<"s", "y", "s", "t", "e", "m">>
IpA == <<"1", ".", "2", ".", "3", ".", "4">>

LogEntry(t, m, tp) == [time |-> t, message |-> m, topics |-> tp]
\* The entries the router's log may hold: failures of one address at the
\* window's boundary, an entry without topics, another address, a timestamp
\* that does not parse, a failure without an address or a timestamp, and an
\* entry that is no failure.
LogEntries ==
  { LogEntry(T0, MsgFailedA, TopicsSystem),
    LogEntry(T300, MsgLoginA, TopicsSystem),
    LogEntry(T301, MsgFailedA, TopicsSystem),
    LogEntry(T0, MsgFailedA, NoneVal),
    LogEntry(T300, MsgDeniedB, TopicsSystem),
    LogEntry(TBad, MsgFailedA, TopicsSystem),
    LogEntry(NoneVal, MsgInvalidated, TopicsSystem),
    LogEntry(T0, MsgLinkUp, TopicsSystem) }
\* The batches logs.get() may return: at most n entries, in any order.
Batches(n) == UNION {[1..k -> LogEntries] : k \in 0..n}

\* ------------------------------------------------------------------ state
VARIABLES
  file,             \* LOG_CSV on disk: [exists, header, rows]
  routerLog,        \* what the router's /log resource holds
  pc,               \* the statement main() is at
  run,              \* number of runs started
  connection,       \* whether the local `connection` is bound
  disconnects,      \* calls of connection.disconnect() in this run
  log_entries,
  failed_logins,
  existing_df,
  new_entries,
  brute_force_ips,
  report_written,   \* failed_logins_<timestamp>.txt written in this run
  alert_written,    \* brute_force_alert_<timestamp>.txt written in this run
  outcome,          \* "none", "logged", "nonew" or "error"
  ledger0,          \* history: the ledger file as the run found it
  origin,           \* history: per ledger row, the run that appended it
  rerun             \* history: this run repeats a completed run, log unchanged

vars ==
  <<file, routerLog, pc, run, connection, disconnects, log_entries,
    failed_logins, existing_df, new_entries, brute_force_ips,
    report_written, alert_written, outcome, ledger0, origin, rerun>>

locals ==
  <<connection, disconnects, log_entries, failed_logins, existing_df,
    new_entries, brute_force_ips, report_written, alert_written, outcome>>
history == <<ledger0, origin, rerun>>

NoFile == [exists |-> FALSE, header |-> FALSE, rows |-> <<>>]

Init ==
  /\ file = NoFile
  /\ routerLog = <<>>
  /\ pc = "idle"
  /\ run = 0
  /\ connection = FALSE
  /\ disconnects = 0
  /\ log_entries = <<>>
  /\ failed_logins = <<>>
  /\ existing_df = <<>>
  /\ new_entries = <<>>
  /\ brute_force_ips = <<>>
  /\ report_written = FALSE
  /\ alert_written = FALSE
  /\ outcome = "none"
  /\ ledger0 = NoFile
  /\ origin = <<>>
  /\ rerun = FALSE

\* A fresh process enters main(): its locals are unbound.
EnterMain ==
  /\ pc' = "connect"
  /\ run' = run + 1
  /\ connection' = FALSE
  /\ disconnects' = 0
  /\ log_entries' = <<>>
  /\ failed_logins' = <<>>
  /\ existing_df' = <<>>
  /\ new_entries' = <<>>
  /\ brute_force_ips' = <<>>
  /\ report_written' = FALSE
  /\ alert_written' = FALSE
  /\ outcome' = "none"
  /\ ledger0' = file
  /\ origin' = SubSeq(origin, 1, Len(file.rows))
  /\ UNCHANGED file

\* The scheduler starts a run.
StartRun ==
  /\ pc = "idle"
  /\ run < MaxRuns
  /\ routerLog' = routerLog
  /\ rerun' = FALSE
  /\ EnterMain

\* The scheduler starts a run right after a run that completed without
\* error; the router's log has not changed in between.
StartRunUnchangedLog ==
  /\ pc = "done"
  /\ outcome \in {"logged", "nonew"}
  /\ run < MaxRuns
  /\ routerLog' = routerLog
  /\ rerun' = TRUE
  /\ EnterMain

\* except Exception as e: print(...)
Raise ==
  /\ pc' = "except"

\* Whether the finally clause calls connection.disconnect().
NeverDisconnects(bound) == FALSE
\* if 'connection' in locals(): connection.disconnect()
FinallyDisconnects(bound) == bound

\* config = load_config(); connection = connect_routeros(config);
\* api = connection.get_api()
Connect ==
  /\ pc = "connect"
  /\ \/ /\ connection' = FALSE       \* load_config or connect_routeros raises
        /\ Raise
     \/ /\ connection' = TRUE        \* get_api raises
        /\ Raise
     \/ /\ connection' = TRUE
        /\ pc' = "fetch"
  /\ UNCHANGED <<file, routerLog, run, disconnects, log_entries,
                 failed_logins, existing_df, new_entries, brute_force_ips,
                 report_written, alert_written, outcome, history>>

\* logs = api.get_resource('/log'); log_entries = logs.get()
\* The router's log holds some batch by now, or, in a repeated run, the
\* batch the run before fetched.
Fetch ==
  /\ pc = "fetch"
  /\ \/ /\ Raise
        /\ UNCHANGED <<log_entries, routerLog>>
     \/ /\ ~rerun
        /\ \E batch \in Batches(MaxBatch) :
             /\ Len(file.rows) + Len(batch) <= MaxRecords
             /\ routerLog' = batch
        /\ log_entries' = routerLog'
        /\ pc' = "classify"
     \/ /\ rerun
        /\ log_entries' = routerLog
        /\ pc' = "classify"
        /\ UNCHANGED routerLog
  /\ UNCHANGED <<file, run, connection, disconnects,
                 failed_logins, existing_df, new_entries, brute_force_ips,
                 report_written, alert_written, outcome, history>>

\* The loop over log_entries that fills failed_logins.
ClassifyEntries ==
  /\ pc = "classify"
  /\ failed_logins' = Classify(log_entries)
  /\ pc' = "load"
  /\ UNCHANGED <<file, routerLog, run, connection, disconnects, log_entries,
                 existing_df, new_entries, brute_force_ips,
                 report_written, alert_written, outcome, history>>

\* existing_df = pd.read_csv(LOG_CSV) if os.path.exists(LOG_CSV)
\*               else pd.DataFrame()
\* read_csv raises on an I/O error, and EmptyDataError on a file of no bytes.
LoadLedger ==
  /\ pc = "load"
  /\ \/ /\ ~file.exists
        /\ existing_df' = <<>>
        /\ pc' = "diff"
     \/ /\ file.exists
        /\ file.header
        /\ existing_df' = read_csv(file.rows)
        /\ pc' = "diff"
     \/ /\ file.exists
        /\ Raise
        /\ UNCHANGED existing_df
  /\ UNCHANGED <<file, routerLog, run, connection, disconnects, log_entries,
                 failed_logins, new_entries, brute_force_ips,
                 report_written, alert_written, outcome, history>>

\* df = pd.DataFrame(failed_logins); new_entries = df[~df['id'].isin(...)]
\* if not new_entries.empty: ... else: print("[*] No new failed logins found")
\* A frame built from the empty list has no columns: df['id'] raises KeyError.
DiffLedger ==
  /\ pc = "diff"
  /\ \/ /\ failed_logins = <<>>
        /\ Raise
        /\ UNCHANGED <<new_entries, outcome>>
     \/ /\ failed_logins # <<>>
        /\ new_entries' = Diff(failed_logins, existing_df)
        /\ IF new_entries' = <<>>
             THEN outcome' = "nonew" /\ pc' = "finally"
             ELSE outcome' = outcome /\ pc' = "persist_open"
  /\ UNCHANGED <<file, routerLog, run, connection, disconnects, log_entries,
                 failed_logins, existing_df, brute_force_ips,
                 report_written, alert_written, history>>

\* The lines to_csv has to write: the header, then these rows.
RowsToWrite == to_csv(Concat(existing_df, new_entries))

\* pd.concat([...]).to_csv(LOG_CSV, index=False): the file is opened for
\* writing, which truncates it.
PersistOpen ==
  /\ pc = "persist_open"
  /\ \/ /\ Raise                      \* open() raises: nothing is truncated
        /\ UNCHANGED file
     \/ /\ file' = [exists |-> TRUE, header |-> FALSE, rows |-> <<>>]
        /\ pc' = "persist_write"
  /\ UNCHANGED <<routerLog, run, locals, history>>

\* to_csv: the header line reaches the file.
PersistWriteHeader ==
  /\ pc = "persist_write"
  /\ ~file.header
  /\ file' = [file EXCEPT !.header = TRUE]
  /\ UNCHANGED <<routerLog, pc, run, locals, history>>

\* to_csv: the next row reaches the file.
PersistWriteRow ==
  /\ pc = "persist_write"
  /\ file.header
  /\ Len(file.rows) < Len(RowsToWrite)
  /\ LET k == Len(file.rows) + 1
     IN /\ file' = [file EXCEPT !.rows = Append(@, RowsToWrite[k])]
        /\ origin' = IF k <= Len(origin) THEN origin ELSE Append(origin, run)
  /\ UNCHANGED <<routerLog, pc, run, locals, ledger0, rerun>>

\* to_csv raises in the middle of the write (the disk is full): the file
\* keeps the lines that reached it. Lines reach the file one by one; a line
\* cut in its middle is not modelled.
PersistWriteFails ==
  /\ pc = "persist_write"
  /\ Len(file.rows) < Len(RowsToWrite)
  /\ Raise
  /\ UNCHANGED <<file, routerLog, run, locals, history>>

\* The process is killed in the middle of the write: no handler runs.
Crash ==
  /\ pc = "persist_write"
  /\ Len(file.rows) < Len(RowsToWrite)
  /\ pc' = "crashed"
  /\ UNCHANGED <<file, routerLog, run, locals, history>>

\* to_csv returns; print(f"[+] Logged ...")
PersistClose ==
  /\ pc = "persist_write"
  /\ file.header
  /\ Len(file.rows) = Len(RowsToWrite)
  /\ pc' = "report"
  /\ UNCHANGED <<file, routerLog, run, locals, history>>

\* with open(report_file, "w") as f: ...; open_file(report_file)
WriteReport ==
  /\ pc = "report"
  /\ \/ /\ Raise
        /\ UNCHANGED report_written
     \/ /\ report_written' = TRUE
        /\ pc' = "detect"
  /\ UNCHANGED <<file, routerLog, run, connection, disconnects, log_entries,
                 failed_logins, existing_df, new_entries, brute_force_ips,
                 alert_written, outcome, history>>

\* new_entries['ip'] = ...; new_entries['datetime'] = ...; ip_attempts;
\* brute_force_ips = [...]
Detect ==
  /\ pc = "detect"
  /\ brute_force_ips' = BruteForceIps(DetectionFrame(existing_df, new_entries))
  /\ pc' = "alert"
  /\ UNCHANGED <<file, routerLog, run, connection, disconnects, log_entries,
                 failed_logins, existing_df, new_entries,
                 report_written, alert_written, outcome, history>>

\* if brute_force_ips: with open(alert_file, "w") as f: ...
WriteAlert ==
  /\ pc = "alert"
  /\ \/ /\ brute_force_ips # <<>>
        /\ Raise
        /\ UNCHANGED <<alert_written, outcome>>
     \/ /\ brute_force_ips # <<>>
        /\ alert_written' = TRUE
        /\ outcome' = "logged"
        /\ pc' = "finally"
     \/ /\ brute_force_ips = <<>>
        /\ outcome' = "logged"
        /\ pc' = "finally"
        /\ UNCHANGED alert_written
  /\ UNCHANGED <<file, routerLog, run, connection, disconnects, log_entries,
                 failed_logins, existing_df, new_entries, brute_force_ips,
                 report_written, history>>

\* except Exception as e: print(f"[!] Error: {str(e)}")
Except ==
  /\ pc = "except"
  /\ outcome' = "error"
  /\ pc' = "finally"
  /\ UNCHANGED <<file, routerLog, run, connection, disconnects, log_entries,
                 failed_logins, existing_df, new_entries, brute_force_ips,
                 report_written, alert_written, history>>

\* finally: if 'connection' in locals(): connection.disconnect()
Finally ==
  /\ pc = "finally"
  /\ disconnects' = IF FinallyDisconnects(connection)
                      THEN disconnects + 1 ELSE disconnects
  /\ pc' = "done"
  /\ UNCHANGED <<file, routerLog, run, connection, log_entries,
                 failed_logins, existing_df, new_entries, brute_force_ips,
                 report_written, alert_written, outcome, history>>

\* The process is gone, by return or by kill: only the ledger file remains.
ProcessExit ==
  /\ pc \in {"done", "crashed"}
  /\ pc' = "idle"
  /\ routerLog' = <<>>
  /\ connection' = FALSE
  /\ disconnects' = 0
  /\ log_entries' = <<>>
  /\ failed_logins' = <<>>
  /\ existing_df' = <<>>
  /\ new_entries' = <<>>
  /\ brute_force_ips' = <<>>
  /\ report_written' = FALSE
  /\ alert_written' = FALSE
  /\ outcome' = "none"
  /\ ledger0' = file
  /\ origin' = SubSeq(origin, 1, Len(file.rows))
  /\ rerun' = FALSE
  /\ UNCHANGED <<file, run>>

Next ==
  \/ StartRun
  \/ ProcessExit
  \/ StartRunUnchangedLog
  \/ Connect
  \/ Fetch
  \/ ClassifyEntries
  \/ LoadLedger
  \/ DiffLedger
  \/ PersistOpen
  \/ PersistWriteHeader
  \/ PersistWriteRow
  \/ PersistWriteFails
  \/ Crash
  \/ PersistClose
  \/ WriteReport
  \/ Detect
  \/ WriteAlert
  \/ Except
  \/ Finally

Spec == Init /\ [][Next]_vars

\* ------------------------------------------------------------- properties
\* The identities stored in the rows of a ledger file.
LedgerIds(rows) == {rows[i].id : i \in 1..Len(rows)}
IsPrefix(s, t) == Len(s) <= Len(t) /\ SubSeq(t, 1, Len(s)) = s
\* The new records of this run as lines of the ledger file.
NewLines == [i \in 1..Len(new_entries) |-> ToCsvRow(new_entries[i])]

\* C1 as stated: after any sequence of runs the persisted ledger holds no
\* two records of the same identity, duplicates inside one batch included.
C1_NoDuplicateIdentity ==
  pc = "done" =>
    \A i, j \in 1..Len(file.rows) :
      file.rows[i].id = file.rows[j].id => i = j

\* C1 amended: two records of the ledger that share an identity were always
\* appended by the same run; a run never appends a record whose identity
\* the ledger held when the run loaded it.
C1_DuplicatesOnlyWithinOneRun ==
  /\ Len(origin) >= Len(file.rows)
  /\ \A i, j \in 1..Len(file.rows) :
       file.rows[i].id = file.rows[j].id => origin[i] = origin[j]

\* A second run fetched a record the ledger held, together with a new one,
\* and appended the new one only.
C1_Witness ==
  /\ pc = "done"
  /\ outcome = "logged"
  /\ Len(ledger0.rows) > 0
  /\ \E i \in 1..Len(failed_logins) :
       failed_logins[i].id \in LedgerIds(ledger0.rows)
  /\ Len(file.rows) = Len(ledger0.rows) + 1
  /\ origin[1] # origin[Len(file.rows)]

\* C2: a run that repeats a completed run against the unchanged log and the
\* ledger that run left computes no new entries, leaves the ledger as it
\* is and writes neither a report nor an alert.
C2_Idempotent ==
  rerun =>
    /\ new_entries = <<>>
    /\ file = ledger0
    /\ ~report_written
    /\ ~alert_written

\* The repeated run came to its end with failures fetched, all of them in
\* the ledger.
C2_Witness ==
  /\ rerun
  /\ pc = "done"
  /\ outcome = "nonew"
  /\ Len(failed_logins) = 2
  /\ Len(file.rows) = 2

\* C3 as stated: when the process is interrupted while persisting N new
\* records, the ledger holds its previous records and none or all of the N.
C3_AtomicAppend ==
  pc = "crashed" =>
    \/ file.rows = ledger0.rows
    \/ file.rows = ledger0.rows \o NewLines

\* The indexes of the new records that the brute-force rule counts for ip:
\* the message yields ip and the timestamp parses.
C4_Counted(ip) ==
  {i \in 1..Len(new_entries) :
     /\ extract_ip(new_entries[i].message) = ip
     /\ to_datetime(new_entries[i].time) # NaT}
C4_Rule(ip) ==
  LET ts == {to_datetime(new_entries[i].time) : i \in C4_Counted(ip)}
  IN /\ Cardinality(C4_Counted(ip)) >= 2
     /\ \A a, b \in ts : a - b <= 300

\* C4 as stated: an ip is flagged exactly when at least 2 of the run's new
\* records yield it with a timestamp that parses and these lie within 300
\* seconds, whatever the other attributes of the records are.
C4_FlaggedIffRule ==
  pc = "alert" =>
    \A i \in 1..Len(new_entries) :
      LET ip == extract_ip(new_entries[i].message)
      IN ip # NoneVal =>
           ((\E k \in 1..Len(brute_force_ips) : brute_force_ips[k] = ip)
              <=> C4_Rule(ip))

\* The candidates whose identity is in no row of the loaded ledger.
C5_Absent(candidates, ledger) ==
  LET Absent(r) == \A i \in 1..Len(ledger) : ledger[i].id # r.id
  IN SelectSeq(candidates, Absent)

\* C5 as stated: for every loaded ledger and every candidate sequence, the
\* diff yields the candidates whose identity the ledger lacks, in order.
C5_DiffExact ==
  [][pc = "diff" =>
       /\ pc' # "except"
       /\ new_entries' = C5_Absent(failed_logins, existing_df)]_vars

\* C6 as stated: the ledger before a run is a prefix of the ledger after
\* it, and after an aborted run the ledger is its content before the run,
\* or that followed by the whole new batch.
C6_AppendOnly ==
  pc = "done" =>
    /\ IsPrefix(ledger0.rows, file.rows)
    /\ outcome = "error" =>
         \/ file.rows = ledger0.rows
         \/ file.rows = ledger0.rows \o NewLines

\* C7: when main() has ended, disconnect() was called once if the
\* connection was bound and not at all otherwise; it is called nowhere
\* before the end.
C7_ReleaseOnEveryExit ==
  /\ pc = "done" => disconnects = (IF connection THEN 1 ELSE 0)
  /\ disconnects <= 1
  /\ disconnects = 1 => connection /\ pc = "done"

\* A run that bound the connection, found new entries and then failed has
\* released the connection.
C7_Witness ==
  /\ pc = "done"
  /\ outcome = "error"
  /\ connection
  /\ new_entries # <<>>
  /\ disconnects = 1

\* The failures of this run's batch that the ledger lacked when the run
\* began and whose message yields ip.
C8_Fresh(ip) ==
  {i \in 1..Len(failed_logins) :
     /\ failed_logins[i].id \notin LedgerIds(ledger0.rows)
     /\ extract_ip(failed_logins[i].message) = ip}

\* C8: every flagged ip has at least BRUTE_FORCE_THRESHOLD failures among
\* this run's new records; records persisted by earlier runs never count.
C8_NoCrossRunMemory ==
  pc = "alert" =>
    \A k \in 1..Len(brute_force_ips) :
      Cardinality(C8_Fresh(brute_force_ips[k])) >= BRUTE_FORCE_THRESHOLD

\* One new failure of an address whose earlier failure, inside the window,
\* is in the ledger: nothing is flagged.
C8_Witness ==
  /\ pc = "alert"
  /\ brute_force_ips = <<>>
  /\ Len(new_entries) = 1
  /\ extract_ip(new_entries[1].message) = IpA
  /\ new_entries[1].time = T300
  /\ ~IsNA(new_entries[1].topics)
  /\ \E i \in 1..Len(ledger0.rows) :
       /\ extract_ip(ledger0.rows[i].message) = IpA
       /\ ledger0.rows[i].time = T0
       /\ ledger0.rows[i].topics # <<>>

\* The four keywords, and the substring test, of the classification rule.
C9_Keywords ==
  { <<"l", "o", "g", "i", "n", " ", "f", "a", "i", "l", "u", "r", "e">>,
    <<"f", "a", "i", "l", "e", "d">>,
    <<"d", "e", "n", "i", "e", "d">>,
    <<"i", "n", "v", "a", "l", "i", "d">> }
C9_Substring(sub, s) ==
  \E i \in 0..(Len(s) - Len(sub)) :
    \A j \in 1..Len(sub) : s[i + j] = sub[j]
C9_Matches(entry) ==
  \E kw \in C9_Keywords : C9_Substring(kw, Lower(entry.message))
C9_Record(entry) ==
  [time |-> entry.time, message |-> entry.message, topics |-> entry.topics,
   id |-> (IF entry.time = NoneVal THEN <<"N", "o", "n", "e">> ELSE entry.time)
          \o <<"|">> \o entry.message]

\* C9: the failure records are, in the order fetched, one record for each
\* entry whose lower-cased message contains a keyword, and no other.
C9_Classification ==
  pc = "load" =>
    LET matching == SelectSeq(log_entries, C9_Matches)
    IN failed_logins = [i \in 1..Len(matching) |-> C9_Record(matching[i])]

\* A batch of an entry that is no failure and an entry matched inside a
\* word, in capitals: one record.
C9_Witness ==
  /\ pc = "load"
  /\ Len(log_entries) = 2
  /\ log_entries[1].message = MsgLinkUp
  /\ log_entries[2].message = MsgInvalidated
  /\ Len(failed_logins) = 1
  /\ failed_logins[1].message = MsgInvalidated

\* C10 as stated: a run that fetched no failure entry and loaded the ledger
\* ends as "no new failed logins", not as an error.
C10_NoFailuresNoError ==
  [][pc = "diff" /\ failed_logins = <<>> =>
       /\ pc' = "finally"
       /\ outcome' = "nonew"
       /\ file' = file
       /\ ~report_written' /\ ~alert_written']_vars

=============================================================================
